---- MODULE Spec2Model ----
(***************************************************************************)
(* A model of noblemachine: the sequencer NobleMachine (the closure        *)
(* version of src/unnamed/part_000 lines 562-851 and the prototype version *)
(* of src/noblemachine.js), and the Action / StateMachine / queue classes   *)
(* of src/unnamed/part_000 lines 24-299.                                   *)
(*                                                                         *)
(* JavaScript runs one callback at a time.  A callback (a scheduler tick,  *)
(* a child's event) runs a chain of synchronous calls; the sequencer keeps *)
(* the chain as an explicit call stack, which runs to its end before the   *)
(* next callback starts (every callback is guarded by an empty stack).     *)
(***************************************************************************)
EXTENDS Integers, Sequences, FiniteSets, TLC

VARIABLES
    program,        \* which program runs: "sequencer", "actions" or "queue"
    \* ---- the sequencer NobleMachine ------------------------------------
    version,        \* "closure" (part_000:562) or "proto" (noblemachine.js)
    handlers,       \* me.handlers: state name -> kind of the wrapped value
    stateSequence,  \* me.stateSequence
    completeHandler,\* me.completeHandler is set
    errorHandler,   \* me.errorHandler is set
    exitHandler,    \* me.exitHandler is set
    listening,      \* a success and an error listener are attached
    lateListener,   \* they were attached after start(), in start()'s tick
    registrations,  \* the addState() calls so far, in order: <<name, value,
                    \* the method of the machine that made the call>>
    state,          \* me.state
    stateIndex,     \* me.stateIndex
    running,        \* me.running
    transitioning,  \* me.transitioning
    tick,           \* start()'s process.nextTick callback: idle/pending/ran
    inStartTick,    \* the callback that called start() has not ended yet
    stack,          \* the synchronous call chain of the running callback
    exc,            \* the exception being thrown, "none" when there is none
    acts,           \* the actions started by transition(), with their targets
    emitted,        \* the events the machine has emitted, in order
    delivered,      \* the events the listeners have received, in order
    calls,          \* the handlers invoked so far, in order
    exitCalls,      \* how many times the exit handler has been invoked
    exitBeforeEmit, \* every emission so far came after an exit-handler call
    uncaught,       \* an exception has left its callback uncaught
    cmds,           \* how many calls user functions have made into the machine
    plainRun,       \* no user function has done anything but return
    delay,          \* me.delay of the older NobleMachine (part_000:360-533)
    \* ---- Actions and StateMachines (part_000:24-165) --------------------
    subActions,     \* a._subActions, for every Action a
    errorListeners, \* the listeners of a's 'error' event, in the order added
    successListeners, \* the listeners of a's 'success' event
    smState,        \* a.state, for a StateMachine a
    started,        \* new / pending (start() called) / running (_start ran)
    tickQueue,      \* the process.nextTick callbacks not run yet, oldest first
    mainBlock,      \* the program's first block of code has not ended yet
    regs,           \* how each child was registered: addAction or transition
    cancelled,      \* a has emitted a cancel event
    outcomes,       \* how many success and error events a has emitted
    owns,           \* how many events the Actions' own work has emitted
    late,           \* a listener received an event of an Action cancelled before
    trace,          \* the events of the last operation, in order
    fatal,          \* "Unhandled error in action" has been thrown
    nCancels,       \* how many times the program has called cancel()
    \* ---- a TransitionQueue on a StateMachine (part_000:178-228) ----------
    qTransitions,   \* queue._transitions, each with its action's progress
    qStarted,       \* queue._started
    completedItems, \* the completedItems counter of each start() call
    qState,         \* queue.stateMachine.state
    finalCount,     \* how many times finalState has been forced
    handlerRuns,    \* how many times a target state's handler has run
    qThrown,        \* a call on the queue, or a listener of it, has thrown
    qTimers,        \* the pending setTimeout callbacks of a LinearQueue
    finalLog        \* for every time finalTransition() forced finalState: how
                    \* often the last transition's handler had run by then

\* What the declarations set, and what a run changes (see Commit).
declVars == << version, handlers, stateSequence, completeHandler, errorHandler,
               exitHandler, listening, lateListener, registrations >>
runVars == << state, stateIndex, running, transitioning, tick, inStartTick,
              stack, exc, acts, emitted, delivered, calls, exitCalls,
              exitBeforeEmit, uncaught, cmds, plainRun, delay >>
seqVars == << declVars, runVars >>

actVars == << subActions, errorListeners, successListeners, smState, started, tickQueue,
              mainBlock, regs, cancelled, outcomes, owns, late,
              trace, fatal, nCancels >>

queueVars == << qTransitions, qStarted, completedItems, qState, finalCount,
                handlerRuns, qThrown, qTimers, finalLog >>

vars == << program, seqVars, actVars, queueVars >>

\* ------------------------------------------------------------- bounds
MaxSteps == 2       \* declared steps
MaxCmds == 1        \* calls the user functions of one run make into the machine
MaxActs == 2        \* actions one machine starts
MaxCalls == MaxSteps + 3   \* handler invocations of one run
MaxEmits == 2       \* events the Actions' own work emits in one run
MaxCancels == 1     \* cancel() calls of the program
MaxSpecs == 2       \* transitions added to one queue
MaxStarts == 1      \* start() calls on one queue
MaxRestarts == 1    \* further start() calls on one serial queue
MaxNamed == 1       \* addState() / nextState() calls of the program

\* The names next() gives: "state" + stateSequence.length.
StepNames == << "state0", "state1", "state2", "state3", "state4", "state5" >>

\* ------------------------------------------------------------- helpers
Frame(k, name, arg) == [k |-> k, name |-> name, arg |-> arg]

\* The run state of the sequencer as one value, for the operators below.
Cur == [ state |-> state, stateIndex |-> stateIndex, running |-> running,
         transitioning |-> transitioning, tick |-> tick,
         inStartTick |-> inStartTick, stack |-> stack, exc |-> exc,
         acts |-> acts, emitted |-> emitted, delivered |-> delivered,
         calls |-> calls, exitCalls |-> exitCalls,
         exitBeforeEmit |-> exitBeforeEmit, uncaught |-> uncaught,
         cmds |-> cmds, plainRun |-> plainRun, delay |-> delay ]

Commit(S) ==
    /\ state' = S.state
    /\ stateIndex' = S.stateIndex
    /\ running' = S.running
    /\ transitioning' = S.transitioning
    /\ tick' = S.tick
    /\ inStartTick' = S.inStartTick
    /\ stack' = S.stack
    /\ exc' = S.exc
    /\ acts' = S.acts
    /\ emitted' = S.emitted
    /\ delivered' = S.delivered
    /\ calls' = S.calls
    /\ exitCalls' = S.exitCalls
    /\ exitBeforeEmit' = S.exitBeforeEmit
    /\ uncaught' = S.uncaught
    /\ cmds' = S.cmds
    /\ plainRun' = S.plainRun
    /\ delay' = S.delay

Push(S, frames) == [S EXCEPT !.stack = frames \o @]
Pop(S) == [S EXCEPT !.stack = Tail(@)]

\* me.stateSequence.indexOf(name): 0-based, -1 when absent.
IndexOf(name) ==
    IF \E i \in 1..Len(stateSequence) : stateSequence[i] = name
    THEN (CHOOSE i \in 1..Len(stateSequence) :
              /\ stateSequence[i] = name
              /\ \A j \in 1..(i-1) : stateSequence[j] # name) - 1
    ELSE -1

\* findState(nameOrIndex) for a 0-based index; "undefined" out of range.
findState(index) ==
    IF index >= 0 /\ index < Len(stateSequence)
    THEN stateSequence[index + 1] ELSE "undefined"

\* ------------------------------------------------- sequencer: operators
\* emitSuccess(): not running any more, then emit('success').
emitSuccess(S, arg) ==
    [S EXCEPT !.running = FALSE,
              !.emitted = Append(@, <<"success", arg>>),
              !.delivered = IF listening THEN Append(@, <<"success", arg>>) ELSE @,
              !.exitBeforeEmit = @ /\ (S.exitCalls > 0)]

\* emitError(): not running any more, then emit('error'); an EventEmitter
\* throws the payload when 'error' has no listener.
emitError(S, arg) ==
    [S EXCEPT !.running = FALSE,
              !.emitted = Append(@, <<"error", arg>>),
              !.delivered = IF listening THEN Append(@, <<"error", arg>>) ELSE @,
              !.exitBeforeEmit = @ /\ (S.exitCalls > 0),
              !.exc = IF listening THEN @ ELSE arg]

\* go(args): call the current state's handler inside try/catch.
go(S, arg) ==
    IF S.state \in DOMAIN handlers
    THEN Push(S, << Frame("handler", S.state, arg), Frame("go", "", "none") >>)
    ELSE [Push(S, << Frame("go", "", "none") >>) EXCEPT !.exc = "TypeError"]

\* runState(nameOrIndex, args)
runState(S, name, arg) ==
    go([S EXCEPT !.state = name,
                 !.stateIndex = IF IndexOf(name) # -1 THEN IndexOf(name) ELSE @],
       arg)

\* transition({action, success}): listen to the action, start it.
transition(S, success) ==
    [S EXCEPT !.transitioning = TRUE,
              !.acts = Append(@, [success |-> success, error |-> "error",
                                  st |-> "started"])]

\* toState(nameOrIndex, actOrVar)
toStateRunsValue(S, name, arg) == runState(S, name, arg)

toState(S, name, arg) ==
    IF arg = "none" THEN runState(S, name, "none")
    ELSE IF arg = "action" THEN transition(S, name)
    ELSE runState(S, name, arg)

toComplete(S, arg) == toState(S, "complete", arg)

toError(S, arg) == toState(S, "error", arg)

\* var nextState = me.stateIndex+1
SkipStateIndex(S) == S.stateIndex + 2

NextStateIndex(S) == S.stateIndex + 1

toNextUnchecked(S, arg) ==
    toState(S, findState(NextStateIndex(S)), arg)

toNext(S, arg) ==
    IF NextStateIndex(S) < Len(stateSequence)
    THEN toState(S, findState(NextStateIndex(S)), arg)
    ELSE toComplete(S, arg)

\* toPrev(): to the step before the cursor's, or to `error`.
Diagnostic == "Tried to transition earlier than the first state?!"

toPrev(S, arg) ==
    IF S.stateIndex - 1 < 0
    THEN toError(S, Diagnostic)
    ELSE toState(S, findState(S.stateIndex - 1), arg)

\* toRepeat(): toState(me.stateIndex, ...) in the closure version; the
\* prototype version's body names `me`, which that function does not declare.
toRepeat(S, arg) ==
    IF version = "closure" THEN toState(S, findState(S.stateIndex), arg)
    ELSE [S EXCEPT !.exc = "ReferenceError"]

\* onExit()
onExit(S) == IF exitHandler THEN [S EXCEPT !.exitCalls = @ + 1] ELSE S

\* The complete state's function after the completion handler has returned.
CompleteTail(S, arg) ==
    LET E == onExit(S)
        guard == IF version = "closure" THEN E.running /\ ~completeHandler
                 ELSE ~completeHandler
    IN  IF guard THEN emitSuccess(E, arg) ELSE E

\* The error state's function after the error handler has returned.
ErrorTailExitValue(S, arg) == emitError(onExit(S), "exitValue")

ErrorTail(S, arg) ==
    LET E == onExit(S)
    IN  IF ~errorHandler THEN emitError(E, arg) ELSE E

\* The check that ends makeHandler's wrapper around a function.
AutoAdvanceAlways(S, entry, wait) == ~wait /\ S.running

AutoAdvance(S, entry, wait) ==
    /\ ~wait
    /\ S.state = entry
    /\ ~S.transitioning
    /\ S.running

\* start(): running, and toNext() on the next tick.
startInline(S) ==
    toNext([S EXCEPT !.running = TRUE, !.tick = "ran", !.inStartTick = TRUE], "none")

start(S) ==
    [S EXCEPT !.running = TRUE, !.tick = "pending", !.inStartTick = TRUE]

\* ------------------------------------------------- sequencer: actions
Sequencer == program \in { "sequencer", "named", "jump", "waits" }
JumpProgram == program = "jump"

\* The steps of the example of README.md:72-86: A, B and C.
JumpSequence == << "state0", "state1", "state2" >>

\* The handler invocations of one run: three more than the steps declared.
CallCap == IF JumpProgram THEN Len(JumpSequence) + (MaxCalls - MaxSteps) ELSE MaxCalls
Quiescent == stack = << >> /\ exc = "none"
Executing == stack # << >> /\ exc = "none"

\* next(funcOrAct): a step at the next position of the main sequence.
DeclareNext(kind) ==
    /\ Sequencer /\ tick = "idle"
    /\ Len(stateSequence) < MaxSteps
    /\ LET name == StepNames[Len(stateSequence) + 1]
       IN  /\ handlers' = (name :> kind) @@ handlers
           /\ stateSequence' = Append(stateSequence, name)
           /\ registrations' = Append(registrations, << name, kind, "next" >>)
    /\ Commit([Cur EXCEPT !.plainRun = @ /\ kind = "func"])
    /\ UNCHANGED << program, version, completeHandler, errorHandler, exitHandler,
                    listening, lateListener, actVars, queueVars >>

\* How many addState() / nextState() calls the program has made.
NamedCalls ==
    Cardinality({ i \in 1..Len(registrations) :
                    registrations[i][3] \in { "addState", "nextState" } })

\* The names the program gives to states of its own.
NamedStates == { "bakecookie", "state0", "complete", "error" }

\* addState(name, funcOrAct): me.handlers[name] = me.makeHandler(funcOrAct).
AddState(name, kind) ==
    /\ program = "named" /\ tick = "idle"
    /\ NamedCalls < MaxNamed
    /\ handlers' = (name :> kind) @@ handlers
    /\ registrations' = Append(registrations, << name, kind, "addState" >>)
    /\ Commit([Cur EXCEPT !.plainRun = @ /\ kind = "func"])
    /\ UNCHANGED << program, version, stateSequence, completeHandler,
                    errorHandler, exitHandler, listening, lateListener,
                    actVars, queueVars >>

\* nextState(name, funcOrAct): addState(name, funcOrAct), then
\* me.stateSequence.push(name).
NextState(name, kind) ==
    /\ program = "named" /\ tick = "idle"
    /\ NamedCalls < MaxNamed
    /\ handlers' = (name :> kind) @@ handlers
    /\ stateSequence' = Append(stateSequence, name)
    /\ registrations' = Append(registrations, << name, kind, "nextState" >>)
    /\ Commit([Cur EXCEPT !.plainRun = @ /\ kind = "func"])
    /\ UNCHANGED << program, version, completeHandler, errorHandler, exitHandler,
                    listening, lateListener, actVars, queueVars >>

\* complete(handler), error(handler), ensure(handler)
SetHandler(which) ==
    /\ Sequencer /\ tick = "idle"
    /\ \/ which = "complete" /\ ~completeHandler /\ completeHandler' = TRUE
          /\ UNCHANGED << errorHandler, exitHandler >>
       \/ which = "error" /\ ~errorHandler /\ errorHandler' = TRUE
          /\ UNCHANGED << completeHandler, exitHandler >>
       \/ which = "ensure" /\ ~exitHandler /\ exitHandler' = TRUE
          /\ UNCHANGED << completeHandler, errorHandler >>
    /\ UNCHANGED << program, version, handlers, stateSequence, listening,
                    lateListener, registrations, runVars, actVars, queueVars >>

\* addListener('success', f); addListener('error', g), by the code that
\* built the machine: before start(), or after it in the same tick.
AttachListeners ==
    /\ Sequencer /\ ~listening /\ Quiescent
    /\ tick = "idle" \/ inStartTick
    /\ listening' = TRUE
    /\ lateListener' = inStartTick
    /\ UNCHANGED << program, version, handlers, stateSequence, completeHandler,
                    errorHandler, exitHandler, registrations, runVars, actVars,
                    queueVars >>

\* start()
SeqStart ==
    /\ Sequencer /\ tick = "idle"
    /\ Commit(start(Cur))
    /\ UNCHANGED << program, declVars, actVars, queueVars >>

\* The nextTick callback of start(): me.toNext().
SeqTick ==
    /\ Sequencer /\ tick = "pending" /\ Quiescent
    /\ Commit(toNext([Cur EXCEPT !.tick = "ran", !.inStartTick = FALSE], "none"))
    /\ UNCHANGED << program, declVars, actVars, queueVars >>

\* The handler on top of the call chain S.stack is entered: the wrapper of
\* makeHandler notes me.state and calls the value it wraps.
handlerEntry(S0) ==
    LET f == Head(S0.stack)
        kind == handlers[f.name]
        S == [Pop(S0) EXCEPT !.calls = Append(@, f.name)]
    IN  CASE kind \in { "func", "wait" } ->
               Push(S, << Frame("user", f.name, f.arg),
                          Frame("wrap", S.state, "none") >>)
          [] kind = "act" -> toNext(S, "action")
          [] kind = "complete" ->
               IF completeHandler
               THEN Push(S, << Frame("user", "completeHandler", f.arg),
                               Frame("completeTail", "", f.arg),
                               Frame("wrap", S.state, "none") >>)
               ELSE Push(CompleteTail(S, f.arg),
                         << Frame("wrap", S.state, "none") >>)
          [] kind = "error" ->
               IF errorHandler
               THEN Push(S, << Frame("user", "errorHandler", f.arg),
                               Frame("errorTail", "", f.arg),
                               Frame("wrap", S.state, "none") >>)
               ELSE Push(ErrorTail(S, f.arg),
                         << Frame("wrap", S.state, "none") >>)

\* makeHandler's wrapper is entered: it notes me.state and calls the value.
EnterHandler ==
    /\ Sequencer /\ Executing
    /\ Head(stack).k = "handler"
    /\ Len(calls) < CallCap
    /\ Commit(handlerEntry(Cur))
    /\ UNCHANGED << program, declVars, actVars, queueVars >>

\* What a step's function may call on the machine, and a terminal callback.
StepCmds == { "toNext", "toNextAct", "toPrev", "toComplete", "toError", "throw" }
CallbackCmds == { "emitSuccess", "emitError", "throw" }

\* What a function of a program with waiting steps calls.
WaitCmds == { "toNext", "toNextAct", "toRepeat" }

\* What a function of a program with named states calls.
NamedCmds == { "toNext", "toState" }

CmdsOf(name) ==
    IF name \in { "completeHandler", "errorHandler" } THEN CallbackCmds
    ELSE IF program = "named" THEN NamedCmds
    ELSE IF program = "waits" THEN WaitCmds
    ELSE StepCmds

DoCmd(S, c) ==
    CASE c = "toNext" -> toNext(S, "none")
      [] c = "toNextAct" -> toNext(S, "action")
      [] c = "toPrev" -> toPrev(S, "none")
      [] c = "toState" -> toState(S, "bakecookie", "none")
      [] c = "toRepeat" -> toRepeat(S, "again")
      [] c = "toComplete" -> toComplete(S, "none")
      [] c = "toError" -> toError(S, "userError")
      [] c = "throw" -> [S EXCEPT !.exc = "thrown"]
      [] c = "emitSuccess" -> emitSuccess(S, "handled")
      [] c = "emitError" -> emitError(S, "unhandled")

\* The user's function makes one call into the machine.
UserCmd(c) ==
    /\ Sequencer /\ Executing
    /\ Head(stack).k = "user"
    /\ cmds < MaxCmds
    /\ c \in CmdsOf(Head(stack).name)
    /\ c = "toNextAct" => Len(acts) < MaxActs
    /\ LET S == [Cur EXCEPT !.cmds = @ + 1, !.plainRun = FALSE]
       IN  Commit(DoCmd(S, c))
    /\ UNCHANGED << program, declVars, actVars, queueVars >>

\* The user's function returns.
UserReturn ==
    /\ Sequencer /\ Executing
    /\ Head(stack).k = "user"
    /\ Commit(Pop(Cur))
    /\ UNCHANGED << program, declVars, actVars, queueVars >>

\* The rest of the complete / error state's function.
TerminalTail ==
    /\ Sequencer /\ Executing
    /\ Head(stack).k \in { "completeTail", "errorTail" }
    /\ LET f == Head(stack)
       IN  Commit(IF f.k = "completeTail" THEN CompleteTail(Pop(Cur), f.arg)
                  ELSE ErrorTail(Pop(Cur), f.arg))
    /\ UNCHANGED << program, declVars, actVars, queueVars >>

\* funcOrAct.wait is true: the function was declared with next.wait(f),
\* which is `handler.wait = true; next(handler)`.
Marked(name) == name \in DOMAIN handlers /\ handlers[name] = "wait"

\* What the wrapper reads of the mark: `!funcOrAct.wait` is in the closure
\* version's test only (part_000:592; noblemachine.js:89 has no such term).
waitFlag(name) == version = "closure" /\ Marked(name)

\* The function has returned to makeHandler's wrapper, the top of S0.stack.
handlerExit(S0) ==
    LET f == Head(S0.stack)
        S == Pop(S0)
    IN  IF AutoAdvance(S, f.name, waitFlag(f.name)) THEN toNext(S, "none") ELSE S

AfterHandler ==
    /\ Sequencer /\ Executing
    /\ Head(stack).k = "wrap"
    /\ Commit(handlerExit(Cur))
    /\ UNCHANGED << program, declVars, actVars, queueVars >>

\* go()'s try block ends normally.
GoReturn ==
    /\ Sequencer /\ Executing
    /\ Head(stack).k = "go"
    /\ Commit(Pop(Cur))
    /\ UNCHANGED << program, declVars, actVars, queueVars >>

\* The frames below the nearest enclosing try of go().
RECURSIVE BelowGo(_)
BelowGo(s) ==
    IF s = << >> THEN << >>
    ELSE IF Head(s).k = "go" THEN Tail(s) ELSE BelowGo(Tail(s))

HasGo(s) == \E i \in 1..Len(s) : s[i].k = "go"

\* go()'s catch block: emitError(e) in the error state, toError(e) otherwise.
goCatchEmits(S0) ==
    emitError([S0 EXCEPT !.stack = BelowGo(S0.stack), !.exc = "none"], S0.exc)

goCatch(S0) ==
    LET S == [S0 EXCEPT !.stack = BelowGo(S0.stack), !.exc = "none"]
    IN  IF S0.state = "error" THEN emitError(S, S0.exc) ELSE toError(S, S0.exc)

GoCatch ==
    /\ Sequencer /\ exc # "none" /\ HasGo(stack)
    /\ Commit(goCatch(Cur))
    /\ UNCHANGED << program, declVars, actVars, queueVars >>

\* No try encloses the throw: the exception leaves the callback.
Uncaught ==
    /\ Sequencer /\ exc # "none" /\ ~HasGo(stack)
    /\ Commit([Cur EXCEPT !.stack = << >>, !.exc = "none", !.uncaught = TRUE])
    /\ UNCHANGED << program, declVars, actVars, queueVars >>

\* An action started by transition() emits success or error.
actionListener(S0, i, event) ==
    LET S == [S0 EXCEPT !.acts[i].st = "done", !.transitioning = FALSE,
                        !.inStartTick = FALSE]
    IN  IF event = "success" THEN runState(S, S0.acts[i].success, "result")
        ELSE runState(S, S0.acts[i].error, "failure")

ActReports(i, event) ==
    /\ Sequencer /\ Quiescent
    /\ i \in 1..Len(acts) /\ acts[i].st = "started"
    /\ Commit(actionListener(Cur, i, event))
    /\ UNCHANGED << program, declVars, actVars, queueVars >>


\* ---------------------------------------------- Actions: operators
\* The Action objects of the program.
Actions == { 1, 2, 3 }

Listener(kind, to, target) == [kind |-> kind, to |-> to, target |-> target]

\* The constructor's own 'error' listener (part_000:30-39).
Builtin == Listener("builtin", 0, "")

\* The Action world as one value, for the operators below.
CurA == [ subActions |-> subActions, errorListeners |-> errorListeners,
          successListeners |-> successListeners, smState |-> smState,
          started |-> started, tickQueue |-> tickQueue,
          mainBlock |-> mainBlock,
          regs |-> regs, cancelled |-> cancelled, outcomes |-> outcomes,
          owns |-> owns, late |-> late, trace |-> trace,
          fatal |-> fatal, nCancels |-> nCancels ]

CommitA(A) ==
    /\ subActions' = A.subActions
    /\ errorListeners' = A.errorListeners
    /\ successListeners' = A.successListeners
    /\ smState' = A.smState
    /\ started' = A.started
    /\ tickQueue' = A.tickQueue
    /\ mainBlock' = A.mainBlock
    /\ regs' = A.regs
    /\ cancelled' = A.cancelled
    /\ outcomes' = A.outcomes
    /\ owns' = A.owns
    /\ late' = A.late
    /\ trace' = A.trace
    /\ fatal' = A.fatal
    /\ nCancels' = A.nCancels

\* Action.prototype.cancel: the sub-actions first, then emit('cancel').
RECURSIVE cancel(_, _), cancelEach(_, _, _)
cancelEach(A, subs, except) ==
    IF subs = << >> THEN A
    ELSE cancelEach(IF Head(subs) = except THEN A ELSE cancel(A, Head(subs)),
                    Tail(subs), except)

cancelParentFirst(A, a) ==
    cancelEach([A EXCEPT !.trace = Append(@, << "cancel", a, "" >>),
                         !.cancelled[a] = TRUE],
               A.subActions[a], 0)

cancel(A, a) ==
    LET B == cancelEach(A, A.subActions[a], 0)
    IN  [B EXCEPT !.trace = Append(@, << "cancel", a, "" >>),
                  !.cancelled[a] = TRUE]

\* A listener other than the constructor's receives an event of a.
Received(A, a) == [A EXCEPT !.late = @ \/ A.cancelled[a]]

\* The constructor's listener throws when it is the only 'error' listener.
OnlyBuiltinNever(A, a) == FALSE

OnlyBuiltin(A, a) == Len(A.errorListeners[a]) = 1

\* emit(event, payload) on a: the listeners run in the order they were added.
\* A listener that throws ends the emission (fatal).
RECURSIVE emit(_, _, _, _), runListeners(_, _, _, _, _)

\* The constructor's 'error' listener: throw when there are no listeners.
builtinListener(A, a, payload) ==
    IF OnlyBuiltin(A, a)
    THEN [A EXCEPT !.fatal = TRUE, !.trace = Append(@, << "throw", a, payload >>)]
    ELSE A

\* The 'error' listener addAction puts on sub-action a of `to`: cancel the
\* other sub-actions, then emitError on `to` with the same arguments.
bubbleEmitFirst(A, a, to, payload) ==
    cancelEach(emit(Received(A, a), to, "error", payload), A.subActions[to], a)

bubbleListener(A, a, to, payload) ==
    emit(cancelEach(Received(A, a), A.subActions[to], a), to, "error", payload)

runListeners(A, a, event, payload, ls) ==
    IF ls = << >> \/ A.fatal THEN A
    ELSE LET l == Head(ls)
             B == CASE l.kind = "builtin" -> builtinListener(A, a, payload)
                    [] l.kind = "bubble" -> bubbleListener(A, a, l.to, payload)
                    [] l.kind = "transition" ->
                         \* part_000:136-147: me.state = opts[event]; transitionNow
                         [Received(A, a) EXCEPT
                             !.smState[l.to] = l.target,
                             !.trace = Append(@, << "handler", l.to, l.target >>)]
                    [] l.kind = "user" ->
                         [Received(A, a) EXCEPT
                             !.trace = Append(@, << "heard", a, payload >>)]
         IN  runListeners(B, a, event, payload, Tail(ls))

emit(A, a, event, payload) ==
    runListeners([A EXCEPT !.trace = Append(@, << event, a, payload >>),
                           !.outcomes[a] = @ + 1],
                 a, event, payload,
                 IF event = "error" THEN A.errorListeners[a]
                 ELSE A.successListeners[a])

\* Action.prototype.start: _start runs on the next tick.
startAction(A, a) ==
    [A EXCEPT !.started[a] = "pending", !.tickQueue = Append(@, a)]

\* Action.prototype.addAction(subAction, opts)
addAction(A, a, sub, bubbleErrors) ==
    LET B == [A EXCEPT !.subActions[a] = Append(@, sub)]
        C == IF bubbleErrors
             THEN [B EXCEPT !.errorListeners[sub] = Append(@, Listener("bubble", a, ""))]
             ELSE B
    IN  startAction(C, sub)

\* mixin({success: 'success', error: 'error'}, opts): the properties of opts
\* over the defaults, so a target the caller left out ("") takes the default.
mixinDefaults(opts) ==
    [success |-> IF opts.success = "" THEN "success" ELSE opts.success,
     error |-> IF opts.error = "" THEN "error" ELSE opts.error]

\* { bubbleErrors: !opts.error } of StateMachine.prototype.transition
bubbleErrors(opts) == opts.error = ""

\* StateMachine.prototype.transition(opts) on machine a with action sub
smTransition(A, a, sub, given) ==
    LET opts == mixinDefaults(given)
        B == [A EXCEPT
                !.successListeners[sub] =
                    Append(@, Listener("transition", a, opts.success)),
                !.errorListeners[sub] =
                    IF opts.error # ""
                    THEN Append(@, Listener("transition", a, opts.error)) ELSE @]
    IN  addAction(B, a, sub, bubbleErrors(opts))

\* ---------------------------------------------- Actions: actions
ActionsProgram == program = "actions" /\ ~fatal

\* The sub-action tree below a.
RECURSIVE Descendants(_, _)
Descendants(subs, a) ==
    LET kids == { subs[a][i] : i \in 1..Len(subs[a]) }
    IN  kids \cup UNION { Descendants(subs, k) : k \in kids }

IsChild(c) == \E a \in Actions : \E i \in 1..Len(subActions[a]) : subActions[a][i] = c

\* Action 1 is the one the program starts; the others become sub-actions,
\* in the order of their numbers.
Root == CHOOSE a \in Actions : \A b \in Actions : a <= b
NextSub(sub) ==
    /\ sub # Root /\ ~IsChild(sub)
    /\ \A c \in Actions : (c # Root /\ c < sub) => IsChild(c)

\* The program builds its Actions in its first block of code; everything
\* after it is a callback: a tick, a timer, the end of some work.
NewCallback(A) == [A EXCEPT !.mainBlock = FALSE, !.trace = << >>]
SameCallback(A) == [A EXCEPT !.trace = << >>]

\* a.addAction(sub) or a.addAction(sub, {bubbleErrors: b})
AddAction(a, sub, b) ==
    /\ ActionsProgram /\ mainBlock
    /\ a < sub /\ NextSub(sub)
    /\ CommitA([addAction(SameCallback(CurA), a, sub, b) EXCEPT
                  !.regs[sub] = [via |-> "addAction", error |-> ""]])
    /\ UNCHANGED << program, seqVars, queueVars >>

\* a.transition({action: sub, success: .., error: ..})
Transition(a, sub, given) ==
    /\ ActionsProgram /\ mainBlock
    /\ a < sub /\ NextSub(sub)
    /\ CommitA([smTransition(SameCallback(CurA), a, sub, given) EXCEPT
                  !.regs[sub] = [via |-> "transition", error |-> given.error]])
    /\ UNCHANGED << program, seqVars, queueVars >>

\* a.addCallback(f); a.addErrback(g)
AddCallbacks(a) ==
    /\ ActionsProgram /\ mainBlock
    /\ \A i \in 1..Len(errorListeners[a]) : errorListeners[a][i].kind # "user"
    /\ CommitA([SameCallback(CurA) EXCEPT
                  !.errorListeners[a] = Append(@, Listener("user", a, "")),
                  !.successListeners[a] = Append(@, Listener("user", a, ""))])
    /\ UNCHANGED << program, seqVars, queueVars >>

\* a.start(), for an Action the program starts itself
Start(a) ==
    /\ ActionsProgram /\ mainBlock
    /\ started[a] = "new" /\ a = Root
    /\ CommitA(startAction(SameCallback(CurA), a))
    /\ UNCHANGED << program, seqVars, queueVars >>

\* The oldest nextTick callback runs: me._start(), which begins a's work.
RunStart(a) ==
    /\ ActionsProgram
    /\ tickQueue # << >> /\ a = Head(tickQueue)
    /\ CommitA([NewCallback(CurA) EXCEPT !.started[a] = "running",
                                         !.tickQueue = Tail(@)])
    /\ UNCHANGED << program, seqVars, queueVars >>

\* a's work calls a.emitSuccess(payload) or a.emitError(payload), in a
\* callback of its own (the tick callbacks run before any other callback).
Emits(a, event) ==
    /\ ActionsProgram /\ tickQueue = << >>
    /\ started[a] = "running" /\ owns < MaxEmits
    /\ CommitA(emit([NewCallback(CurA) EXCEPT !.owns = @ + 1], a, event, a))
    /\ UNCHANGED << program, seqVars, queueVars >>

\* The program calls a.cancel().
Cancel(a) ==
    /\ ActionsProgram /\ tickQueue = << >>
    /\ nCancels < MaxCancels
    /\ CommitA(cancel([NewCallback(CurA) EXCEPT !.nCancels = @ + 1], a))
    /\ UNCHANGED << program, seqVars, queueVars >>

ActIdle ==
    /\ subActions = [a \in Actions |-> << >>]
    /\ errorListeners = [a \in Actions |-> << Builtin >>]
    /\ successListeners = [a \in Actions |-> << >>]
    /\ smState = [a \in Actions |-> "undefined"]
    /\ started = [a \in Actions |-> "new"]
    /\ tickQueue = << >>
    /\ mainBlock = TRUE
    /\ regs = [a \in Actions |-> [via |-> "", error |-> ""]]
    /\ cancelled = [a \in Actions |-> FALSE]
    /\ outcomes = [a \in Actions |-> 0]
    /\ owns = 0
    /\ late = FALSE
    /\ trace = << >>
    /\ fatal = FALSE
    /\ nCancels = 0

\* The error target of a transition: left out, or a state of the caller's.
ErrorTargets == { "", "handled" }

NextAct ==
    \/ \E a, sub \in Actions, b \in BOOLEAN : AddAction(a, sub, b)
    \/ \E a, sub \in Actions, e \in ErrorTargets :
          Transition(a, sub, [success |-> "", error |-> e])
    \/ \E a \in Actions : AddCallbacks(a)
    \/ \E a \in Actions : Start(a)
    \/ \E a \in Actions : RunStart(a)
    \/ \E a \in Actions, event \in { "success", "error" } : Emits(a, event)
    \/ \E a \in Actions : Cancel(a)

\* ---------------------------------------------- TransitionQueue
QueueProgram == program = "queue"

CurQ == [ qTransitions |-> qTransitions, completedItems |-> completedItems,
          qState |-> qState, finalCount |-> finalCount,
          handlerRuns |-> handlerRuns ]

CommitQ(Q) ==
    /\ qTransitions' = Q.qTransitions
    /\ completedItems' = Q.completedItems
    /\ qState' = Q.qState
    /\ finalCount' = Q.finalCount
    /\ handlerRuns' = Q.handlerRuns

\* StateMachine.prototype.transitionTo(state): the state, then its handler.
transitionTo(Q, name) ==
    [Q EXCEPT !.qState = name, !.handlerRuns = @ + 1]

\* me.stateMachine.transitionTo(me.finalState)
forceFinal(Q) ==
    [transitionTo(Q, "final") EXCEPT !.finalCount = @ + 1]

\* The listener StateMachine.prototype.transition adds for `event`
\* (part_000:134-148): me.state = opts[event], then transitionNow.
transitionListener(Q, spec, event) ==
    LET opts == mixinDefaults(spec)
    IN  transitionTo(Q, IF event = "success" THEN opts.success ELSE opts.error)

\* "any event that has a handler should be counted as complete (except the
\* success event which is always counted)" (part_000:204-206)
CountedAlways(spec, event) == TRUE

CountedOnSuccessOnly(spec, event) == event = "success"

Counted(spec, event) == event = "success" \/ spec.error # ""

\* The listener TransitionQueue.prototype.start adds (part_000:207-212), for
\* the counter of the k-th start() call.
countingListener(Q, k) ==
    LET R == [Q EXCEPT !.completedItems[k] = @ + 1]
    IN  IF R.completedItems[k] = Len(R.qTransitions) THEN forceFinal(R) ELSE R

\* The action of a transition emits `event`: for every start() call, in
\* order, the transition's listener and then the queue's.
RECURSIVE queueListeners(_, _, _, _)
queueListeners(Q, spec, event, k) ==
    IF k > Len(Q.completedItems) THEN Q
    ELSE LET T == transitionListener(Q, spec, event)
             C == IF Counted(spec, event) THEN countingListener(T, k) ELSE T
         IN  queueListeners(C, spec, event, k + 1)

\* TransitionQueue.prototype.start
queueStart(Q) ==
    LET R == [Q EXCEPT !.completedItems = Append(@, 0)]
        Z == IF Len(R.qTransitions) = 0 THEN forceFinal(R) ELSE R
    IN  [Z EXCEPT !.qTransitions =
            [i \in 1..Len(@) |-> [@[i] EXCEPT !.pending = @ + 1]]]

\* queue.addTransition({action, success, error})
QAdd(success, error) ==
    /\ QueueProgram
    /\ IF qStarted
       THEN /\ qThrown' = TRUE
            /\ UNCHANGED << qTransitions >>
       ELSE /\ Len(qTransitions) < MaxSpecs
            /\ qTransitions' = Append(qTransitions,
                  [success |-> success, error |-> error, pending |-> 0,
                   out |-> << >>])
            /\ UNCHANGED qThrown
    /\ UNCHANGED << program, seqVars, actVars, qStarted, completedItems, qState,
                    finalCount, handlerRuns, qTimers, finalLog >>

\* queue.start()
QStart ==
    /\ QueueProgram
    /\ Len(completedItems) < MaxStarts
    /\ qStarted' = TRUE
    /\ CommitQ(queueStart(CurQ))
    /\ UNCHANGED << program, seqVars, actVars, qThrown, qTimers, finalLog >>

\* The action of transition i, started and not done, emits success or error.
QReport(i, event) ==
    /\ QueueProgram
    /\ i \in 1..Len(qTransitions)
    /\ qTransitions[i].pending > 0
    /\ LET Q == [CurQ EXCEPT !.qTransitions[i].pending = @ - 1,
                             !.qTransitions[i].out = Append(@, event)]
       IN  CommitQ(queueListeners(Q, qTransitions[i], event, 1))
    /\ UNCHANGED << program, seqVars, actVars, qStarted, qThrown, qTimers,
                    finalLog >>

QueueIdle ==
    /\ qTransitions = << >>
    /\ qStarted = FALSE
    /\ completedItems = << >>
    /\ qState = "undefined"
    /\ finalCount = 0
    /\ handlerRuns = 0
    /\ qThrown = FALSE
    /\ qTimers = 0
    /\ finalLog = << >>

\* The targets a transition of the queue names: left out, or a state.
SuccessTargets == { "", "done" }

NextQueue ==
    \/ \E st \in SuccessTargets, e \in ErrorTargets : QAdd(st, e)
    \/ QStart
    \/ \E i \in 1..MaxSpecs, event \in { "success", "error" } : QReport(i, event)


\* ---------------------------------------------- LinearQueue
\* A LinearQueue on a StateMachine (part_000:233-299).  Of each transition:
\* its targets, how many runs of its action have not reported yet (pending),
\* what its action has reported (out), how many times the machine's
\* transition() has put its listeners on the action (wired) and how many
\* times the handler of its target state has run for it (handled).
\* completedItems has one entry per start() call; the last is the field
\* me.completedItems, which start() sets to 0.
SerialProgram == program = "serial"

CurS == [ qTransitions |-> qTransitions, qStarted |-> qStarted,
          completedItems |-> completedItems, qState |-> qState,
          finalCount |-> finalCount, handlerRuns |-> handlerRuns,
          qThrown |-> qThrown, qTimers |-> qTimers, finalLog |-> finalLog ]

CommitS(Q) ==
    /\ qTransitions' = Q.qTransitions
    /\ qStarted' = Q.qStarted
    /\ completedItems' = Q.completedItems
    /\ qState' = Q.qState
    /\ finalCount' = Q.finalCount
    /\ handlerRuns' = Q.handlerRuns
    /\ qThrown' = Q.qThrown
    /\ qTimers' = Q.qTimers
    /\ finalLog' = Q.finalLog

\* me.stateMachine.transition(me._transitions[i-1]): the transition's
\* listeners on the action, then addAction, which starts it.  Without a
\* transition there is no action: 'Transition added with no action'.
serialTransition(Q, i) ==
    IF i > Len(Q.qTransitions) THEN [Q EXCEPT !.qThrown = TRUE]
    ELSE [Q EXCEPT !.qTransitions[i].wired = @ + 1,
                   !.qTransitions[i].pending = @ + 1]

\* states = [last_transition.success, last_transition.error]
lastTargets(Q) ==
    LET last == Q.qTransitions[Len(Q.qTransitions)]
    IN  { last.success, last.error }

\* finalTransition(): force finalState when the machine is in one of the
\* last transition's targets, and try again later otherwise.
finalTransition(Q) ==
    IF Q.qState \in lastTargets(Q)
    THEN forceFinal([Q EXCEPT
            !.qTimers = @ - 1,
            !.finalLog = Append(@, Q.qTransitions[Len(Q.qTransitions)].handled)])
    ELSE Q

\* setTimeout(finalTransition, 10)
scheduleFinalInline(Q) == finalTransition([Q EXCEPT !.qTimers = @ + 1])

scheduleFinal(Q) == [Q EXCEPT !.qTimers = @ + 1]

\* The listener addTransition puts on the action (part_000:273-294).
serialStartsSame(Q) ==
    LET n == Q.completedItems[Len(Q.completedItems)] + 1
        R == [Q EXCEPT !.completedItems[Len(Q.completedItems)] = n]
    IN  IF n = Len(R.qTransitions) THEN scheduleFinal(R)
        ELSE serialTransition(R, n)

serialCounting(Q) ==
    LET n == Q.completedItems[Len(Q.completedItems)] + 1
        R == [Q EXCEPT !.completedItems[Len(Q.completedItems)] = n]
    IN  IF n = Len(R.qTransitions) THEN scheduleFinal(R)
        ELSE serialTransition(R, n + 1)

\* The listeners transition() has put on the action of transition i, one
\* for every time it was wired: me.state = opts[event], then the handler of
\* that state, which leaves the machine there or moves it elsewhere.
RECURSIVE serialHandlers(_, _, _, _, _)
serialHandlers(Q, i, event, moves, k) ==
    IF k = 0 THEN Q
    ELSE LET opts == mixinDefaults(Q.qTransitions[i])
             T == transitionTo(Q, IF event = "success" THEN opts.success
                                  ELSE opts.error)
             H == [T EXCEPT !.qTransitions[i].handled = @ + 1,
                            !.qState = IF moves THEN "elsewhere" ELSE @]
         IN  serialHandlers(H, i, event, moves, k - 1)

\* The action of transition i emits `event`: the queue's listener, added
\* first, then the machine's.  A listener that throws ends the emission.
serialEmit(Q, i, event, moves) ==
    LET spec == Q.qTransitions[i]
        C == IF Counted(spec, event)
             THEN serialCounting([Q EXCEPT !.qThrown = FALSE]) ELSE Q
    IN  IF Counted(spec, event) /\ C.qThrown THEN C
        ELSE serialHandlers([C EXCEPT !.qThrown = Q.qThrown], i, event, moves,
                            spec.wired)

\* LinearQueue.prototype.start
serialStart(Q) ==
    LET R == [Q EXCEPT !.qStarted = TRUE,
                       !.completedItems = [k \in 1..(Len(@) + 1) |-> 0]]
    IN  IF Len(R.qTransitions) = 0 THEN forceFinal(R)
        ELSE serialTransition(R, 1)

\* queue.addTransition({action, success, error})
SAdd(success, error) ==
    /\ SerialProgram
    /\ IF qStarted
       THEN CommitS([CurS EXCEPT !.qThrown = TRUE])
       ELSE /\ Len(qTransitions) < MaxSpecs
            /\ CommitS([CurS EXCEPT !.qTransitions = Append(@,
                  [success |-> success, error |-> error, pending |-> 0,
                   out |-> << >>, wired |-> 0, handled |-> 0])])
    /\ UNCHANGED << program, seqVars, actVars >>

\* queue.start()
SStart ==
    /\ SerialProgram
    /\ Len(completedItems) < 1 + MaxRestarts
    /\ CommitS(serialStart(CurS))
    /\ UNCHANGED << program, seqVars, actVars >>

\* A run of the action of transition i emits success or error.
SReport(i, event, moves) ==
    /\ SerialProgram
    /\ i \in 1..Len(qTransitions)
    /\ qTransitions[i].pending > 0
    /\ LET Q == [CurS EXCEPT !.qTransitions[i].pending = @ - 1,
                             !.qTransitions[i].out = Append(@, event)]
       IN  CommitS(serialEmit(Q, i, event, moves))
    /\ UNCHANGED << program, seqVars, actVars >>

\* A timer fires: finalTransition().
STimer ==
    /\ SerialProgram
    /\ qTimers > 0
    /\ CommitS(finalTransition(CurS))
    /\ UNCHANGED << program, seqVars, actVars >>

NextSerial ==
    \/ \E st \in SuccessTargets, e \in ErrorTargets : SAdd(st, e)
    \/ SStart
    \/ \E i \in 1..MaxSpecs, event \in { "success", "error" }, moves \in BOOLEAN :
          SReport(i, event, moves)
    \/ STimer


\* ---------------------------------------------- the older NobleMachine
\* The NobleMachine of part_000:360-533, a StateMachine whose steps are the
\* states "pseudostate1", "pseudostate2", ...  Its cursor me.pseudostate is
\* kept in stateIndex and its step names in stateSequence, so that
\* me.pseudostates is Len(stateSequence).  The machine is built without a
\* first function, its steps are functions, and last(), error() and
\* ensure() are not used: `success` and `error` are the states start() adds.
PseudoProgram == program = "pseudo"

PseudoNames == << "pseudostate0", "pseudostate1", "pseudostate2", "pseudostate3",
                  "pseudostate4", "pseudostate5", "pseudostate6" >>

\* "pseudostate" + n
PseudoName(n) == IF n \in 0..6 THEN PseudoNames[n + 1] ELSE "pseudostate-1"

\* parseInt(me.state.replace(/[^\d]*/g, ''))
PseudoNumber(name) == CHOOSE n \in 0..6 : PseudoNames[n + 1] = name

\* NobleMachine.prototype.emitSuccess / emitError: me.delay, then the
\* Action's emit; the Action's own 'error' listener throws when alone.
pEmit(S, event, arg) ==
    [S EXCEPT !.delay = TRUE,
              !.emitted = Append(@, << event, arg >>),
              !.delivered = IF listening THEN Append(@, << event, arg >>) ELSE @,
              !.exc = IF event = "error" /\ ~listening
                      THEN "Unhandled error in action" ELSE @]

\* StateMachine.prototype.transitionNow: the handler of me.state, or throw.
pTransitionNow(S, arg) ==
    CASE S.state = "success" ->
            pEmit([S EXCEPT !.calls = Append(@, "success")], "success", arg)
      [] S.state = "error" ->
            pEmit([S EXCEPT !.calls = Append(@, "error")], "error", arg)
      [] S.state \in { stateSequence[i] : i \in 1..Len(stateSequence) } ->
            Push(S, << Frame("handler", S.state, arg) >>)
      [] OTHER -> [S EXCEPT !.exc = "Undefined state"]

\* StateMachine.prototype.transitionTo(state, ...)
pTransitionTo(S, name, arg) == pTransitionNow([S EXCEPT !.state = name], arg)

\* NobleMachine.prototype.toState(state, action), for an action that is not
\* startable.
pToState(S, name, arg) == pTransitionTo([S EXCEPT !.delay = FALSE], name, arg)

\* NobleMachine.prototype.nextState()
pNextState(S) ==
    IF S.stateIndex >= Len(stateSequence) THEN "success"
    ELSE PseudoName(S.stateIndex + 1)

pToNext(S, arg) == pToState(S, pNextState(S), arg)

pToError(S, arg) == pToState(S, "error", arg)

\* NobleMachine.prototype.repeat(action)
pRepeat(S, arg) == pToState(S, S.state, arg)

\* NobleMachine.prototype.toPrev(action)
pToPrev(S, arg) ==
    pToState(S, IF S.stateIndex > Len(stateSequence)
                THEN PseudoName(S.stateIndex)
                ELSE PseudoName(S.stateIndex - 1), arg)

\* next(func): one more pseudostate.
PNext ==
    /\ PseudoProgram /\ tick = "idle"
    /\ Len(stateSequence) < MaxSteps
    /\ stateSequence' = Append(stateSequence, PseudoName(Len(stateSequence) + 1))
    /\ UNCHANGED << program, version, handlers, completeHandler, errorHandler,
                    exitHandler, listening, lateListener, registrations,
                    runVars, actVars, queueVars >>

\* addCallback(f); addErrback(g), before start() or after it in its tick.
PListen ==
    /\ PseudoProgram /\ ~listening
    /\ tick = "idle" \/ inStartTick
    /\ listening' = TRUE
    /\ lateListener' = inStartTick
    /\ UNCHANGED << program, version, handlers, stateSequence, completeHandler,
                    errorHandler, exitHandler, registrations, runVars, actVars,
                    queueVars >>

\* start(): the `success` and `error` states, then Action.prototype.start.
PStart ==
    /\ PseudoProgram /\ tick = "idle"
    /\ Commit([Cur EXCEPT !.tick = "pending", !.inStartTick = TRUE])
    /\ UNCHANGED << program, declVars, actVars, queueVars >>

\* The nextTick callback: _start(), which is me.toNext().
PTick ==
    /\ PseudoProgram /\ tick = "pending"
    /\ Commit(pToNext([Cur EXCEPT !.tick = "ran", !.inStartTick = FALSE], "none"))
    /\ UNCHANGED << program, declVars, actVars, queueVars >>

\* The state function next() made is entered: it notes the cursor and the
\* state, and calls the step's function.
PEnter ==
    /\ PseudoProgram /\ Executing
    /\ Head(stack).k = "handler"
    /\ Len(calls) < MaxCalls
    /\ LET f == Head(stack)
           S == [Pop(Cur) EXCEPT !.calls = Append(@, f.name),
                                 !.stateIndex = PseudoNumber(f.name)]
       IN  Commit(Push(S, << Frame("user", f.name, f.arg),
                             Frame("wrap", f.name, "none") >>))
    /\ UNCHANGED << program, declVars, actVars, queueVars >>

\* The step's function makes one call into the machine.
PCmds == { "toNext", "toPrev", "repeat", "toError" }

PCmd(c) ==
    /\ PseudoProgram /\ Executing
    /\ Head(stack).k = "user"
    /\ cmds < MaxCmds
    /\ LET S == [Cur EXCEPT !.cmds = @ + 1, !.plainRun = FALSE]
       IN  Commit(CASE c = "toNext" -> pToNext(S, "none")
                    [] c = "toPrev" -> pToPrev(S, "none")
                    [] c = "repeat" -> pRepeat(S, "none")
                    [] c = "toError" -> pToError(S, "userError"))
    /\ UNCHANGED << program, declVars, actVars, queueVars >>

\* The step's function returns.
PReturn ==
    /\ PseudoProgram /\ Executing
    /\ Head(stack).k = "user"
    /\ Commit(Pop(Cur))
    /\ UNCHANGED << program, declVars, actVars, queueVars >>

\* Back in the state function: on to the next step unless the function
\* changed the state or the machine is delayed (no sub-action was added).
PAfter ==
    /\ PseudoProgram /\ Executing
    /\ Head(stack).k = "wrap"
    /\ LET f == Head(stack)
           S == Pop(Cur)
       IN  Commit(IF S.state = f.name /\ ~S.delay THEN pToNext(S, "none") ELSE S)
    /\ UNCHANGED << program, declVars, actVars, queueVars >>

\* Nothing catches: the exception leaves the callback.
PUncaught ==
    /\ PseudoProgram /\ exc # "none"
    /\ Commit([Cur EXCEPT !.stack = << >>, !.exc = "none", !.uncaught = TRUE])
    /\ UNCHANGED << program, declVars, actVars, queueVars >>

NextPseudo ==
    \/ PNext
    \/ PListen
    \/ PStart
    \/ PTick
    \/ PEnter
    \/ \E c \in PCmds : PCmd(c)
    \/ PReturn
    \/ PAfter
    \/ PUncaught

SeqIdle ==
    /\ handlers = ("complete" :> "complete") @@ ("error" :> "error")
    /\ stateSequence = << >>
    /\ completeHandler = FALSE
    /\ errorHandler = FALSE
    /\ exitHandler = FALSE
    /\ state = "undefined"
    /\ stateIndex = IF program = "pseudo" THEN 0 ELSE -1
    /\ running = FALSE
    /\ transitioning = FALSE
    /\ tick = "idle"
    /\ inStartTick = FALSE
    /\ stack = << >>
    /\ exc = "none"
    /\ acts = << >>
    /\ listening = FALSE
    /\ lateListener = FALSE
    /\ registrations = << << "complete", "complete", "constructor" >>,
                          << "error", "error", "constructor" >> >>
    /\ emitted = << >>
    /\ delivered = << >>
    /\ calls = << >>
    /\ exitCalls = 0
    /\ exitBeforeEmit = TRUE
    /\ uncaught = FALSE
    /\ cmds = 0
    /\ plainRun = TRUE
    /\ delay = FALSE

NextSeq ==
    \/ \E kind \in { "func", "act" } : DeclareNext(kind)
    \/ \E which \in { "complete", "error", "ensure" } : SetHandler(which)
    \/ AttachListeners
    \/ SeqStart
    \/ SeqTick
    \/ EnterHandler
    \/ \E c \in StepCmds \cup CallbackCmds : UserCmd(c)
    \/ UserReturn
    \/ TerminalTail
    \/ AfterHandler
    \/ GoReturn
    \/ GoCatch
    \/ Uncaught
    \/ \E i \in 1..MaxActs, event \in { "success", "error" } : ActReports(i, event)

Init ==
    /\ \/ program = "sequencer" /\ version \in { "closure", "proto" }
       \/ program \in { "actions", "queue" } /\ version = "closure"
    /\ SeqIdle /\ ActIdle /\ QueueIdle

Next == NextSeq \/ NextAct \/ NextQueue

Spec == Init /\ [][Next]_vars

\* ------------------------------------- the example of README.md:72-86
\* A program that declares the sequence [A, B, C] and the named state
\* `bakecookie` outside it.  B jumps to bakecookie, and bakecookie goes on to
\* the next step, at once or through an action.
\* next(A); next(B); next(C)
JumpNext ==
    /\ JumpProgram /\ tick = "idle"
    /\ Len(stateSequence) < Len(JumpSequence)
    /\ LET name == StepNames[Len(stateSequence) + 1]
       IN  /\ handlers' = (name :> "func") @@ handlers
           /\ stateSequence' = Append(stateSequence, name)
           /\ registrations' = Append(registrations, << name, "func", "next" >>)
    /\ UNCHANGED << program, version, completeHandler, errorHandler, exitHandler,
                    listening, lateListener, runVars, actVars, queueVars >>

\* addState('bakecookie', function() { ... })
JumpAddState ==
    /\ JumpProgram /\ tick = "idle"
    /\ "bakecookie" \notin DOMAIN handlers
    /\ handlers' = ("bakecookie" :> "func") @@ handlers
    /\ registrations' = Append(registrations, << "bakecookie", "func", "addState" >>)
    /\ UNCHANGED << program, version, stateSequence, completeHandler,
                    errorHandler, exitHandler, listening, lateListener,
                    runVars, actVars, queueVars >>

\* start(), once everything is declared.
JumpStart ==
    /\ JumpProgram
    /\ stateSequence = JumpSequence
    /\ "bakecookie" \in DOMAIN handlers
    /\ SeqStart

\* The call a function of the example makes.  A may pass its result on;
\* B is `act.toState('bakecookie', ...)`; bakecookie is `act.toNext(cookie)`
\* or `act.toNext(anAction)`; C passes its result on or completes with it.
JumpCalls(S, name) ==
    CASE name = "state0" -> { toNext(S, "fromA") }
      [] name = "state1" -> { toState(S, "bakecookie", "fromB") }
      [] name = "bakecookie" -> { toNext(S, "cookie"), toNext(S, "action") }
      [] name = "state2" -> { toNext(S, "fromC"), toComplete(S, "fromC") }
      [] OTHER -> { }

\* A function of the example makes its call; its frame is marked, because
\* it makes no second one.
JumpCmd ==
    /\ JumpProgram /\ Executing
    /\ Head(stack).k = "user"
    /\ LET f == Head(stack)
           S == [Cur EXCEPT !.stack = << Frame("called", f.name, f.arg) >> \o Tail(@),
                            !.plainRun = FALSE]
       IN  \E T \in JumpCalls(S, f.name) : Commit(T)
    /\ UNCHANGED << program, declVars, actVars, queueVars >>

\* A function of the example returns: A without a call, every one after
\* its call.  B and bakecookie do not return without theirs, and C does not
\* return without producing its result.
JumpReturn ==
    /\ JumpProgram /\ Executing
    /\ \/ Head(stack).k = "called"
       \/ Head(stack).k = "user" /\ Head(stack).name = "state0"
    /\ Commit(Pop(Cur))
    /\ UNCHANGED << program, declVars, actVars, queueVars >>

NextJump ==
    \/ JumpNext
    \/ JumpAddState
    \/ AttachListeners
    \/ JumpStart
    \/ SeqTick
    \/ EnterHandler
    \/ JumpCmd
    \/ JumpReturn
    \/ AfterHandler
    \/ GoReturn
    \/ GoCatch
    \/ Uncaught
    \/ \E i \in 1..MaxActs, event \in { "success", "error" } : ActReports(i, event)

JumpInit ==
    /\ program = "jump" /\ version \in { "closure", "proto" }
    /\ SeqIdle /\ ActIdle /\ QueueIdle

JumpSpec == JumpInit /\ [][NextJump]_vars

\* ------------------------------------ steps that wait (README.md:12-24)
WaitProgram == program = "waits"

\* next(f), or next.wait(f): f.wait = true, then next(f).
DeclareWait(kind) ==
    /\ WaitProgram /\ tick = "idle"
    /\ Len(stateSequence) < MaxSteps
    /\ LET name == StepNames[Len(stateSequence) + 1]
       IN  /\ handlers' = (name :> kind) @@ handlers
           /\ stateSequence' = Append(stateSequence, name)
           /\ registrations' = Append(registrations, << name, kind, "next" >>)
    /\ Commit([Cur EXCEPT !.plainRun = @ /\ kind = "func"])
    /\ UNCHANGED << program, version, completeHandler, errorHandler, exitHandler,
                    listening, lateListener, actVars, queueVars >>

\* What a waiting step has started calls back: act.toNext, as in
\* fs.readdir("/root/", act.toNext).
Later ==
    /\ WaitProgram /\ Quiescent
    /\ tick = "ran" /\ running
    /\ Marked(state)
    /\ cmds < MaxCmds
    /\ Commit(toNext([Cur EXCEPT !.cmds = @ + 1, !.plainRun = FALSE], "result"))
    /\ UNCHANGED << program, declVars, actVars, queueVars >>

\* A function that has started an action starts another one before it
\* returns: act.toNext(a1); act.toNext(a2).
SecondAction ==
    /\ WaitProgram /\ Executing
    /\ Head(stack).k = "user"
    /\ transitioning
    /\ Len(acts) < MaxActs
    /\ Commit(toNext(Cur, "action"))
    /\ UNCHANGED << program, declVars, actVars, queueVars >>

NextWait ==
    \/ \E kind \in { "func", "wait" } : DeclareWait(kind)
    \/ AttachListeners
    \/ SeqStart
    \/ SeqTick
    \/ EnterHandler
    \/ \E c \in WaitCmds : UserCmd(c)
    \/ UserReturn
    \/ SecondAction
    \/ AfterHandler
    \/ Later
    \/ GoReturn
    \/ GoCatch
    \/ Uncaught
    \/ \E i \in 1..MaxActs, event \in { "success", "error" } : ActReports(i, event)

WaitInit ==
    /\ program = "waits" /\ version \in { "closure", "proto" }
    /\ SeqIdle /\ ActIdle /\ QueueIdle

WaitSpec == WaitInit /\ [][NextWait]_vars

\* A program that builds one machine with named states and runs it.
NextNamed ==
    \/ \E kind \in { "func", "act" } : DeclareNext(kind)
    \/ \E name \in NamedStates, kind \in { "func", "act" } : AddState(name, kind)
    \/ \E name \in NamedStates, kind \in { "func", "act" } : NextState(name, kind)
    \/ SeqStart
    \/ SeqTick
    \/ EnterHandler
    \/ \E c \in NamedCmds : UserCmd(c)
    \/ UserReturn
    \/ AfterHandler
    \/ GoReturn
    \/ GoCatch
    \/ Uncaught
    \/ \E i \in 1..MaxActs, event \in { "success", "error" } : ActReports(i, event)

NamedInit ==
    /\ program = "named" /\ version \in { "closure", "proto" }
    /\ SeqIdle /\ ActIdle /\ QueueIdle

NamedSpec == NamedInit /\ [][NextNamed]_vars

\* A program that builds and runs one LinearQueue.
SerialInit ==
    /\ program = "serial" /\ version = "closure"
    /\ SeqIdle /\ ActIdle /\ QueueIdle

SerialSpec == SerialInit /\ [][NextSerial]_vars

\* A program that builds and runs one NobleMachine of the older kind.
PseudoInit ==
    /\ program = "pseudo" /\ version = "pseudostate"
    /\ SeqIdle /\ ActIdle /\ QueueIdle

PseudoSpec == PseudoInit /\ [][NextPseudo]_vars

\* The timers of the event loop fire, and the actions that were started
\* report.
SerialFair ==
    /\ SerialSpec
    /\ WF_vars(STimer)
    /\ \A i \in 1..MaxSpecs : WF_vars(\E moves \in BOOLEAN : SReport(i, "success", moves))

\* ================================================================ claims
IsPrefix(s, t) == Len(s) <= Len(t) /\ \A i \in 1..Len(s) : s[i] = t[i]

\* The handlers a run of plain steps invokes: every step, then complete.
DeclaredRun == stateSequence \o << "complete" >>

\* C1: with N declared steps whose handlers are plain functions that only
\* return, and the default complete handler, the handlers invoked are at
\* every moment a prefix of step 0 .. step N-1, complete (none twice, none
\* skipped); the machine emits only after all of them, and when the run has
\* ended it is in `complete` and has emitted success exactly once.
C1_PlainStepsRunInOrder ==
    (Sequencer /\ plainRun /\ ~completeHandler) =>
        /\ IsPrefix(calls, DeclaredRun)
        /\ emitted # << >> =>
              /\ calls = DeclaredRun
              /\ emitted = << << "success", "none" >> >>
        /\ (tick = "ran" /\ Quiescent) =>
              /\ calls = DeclaredRun
              /\ state = "complete"
              /\ emitted = << << "success", "none" >> >>

C1_Witness ==
    /\ Sequencer /\ plainRun /\ ~completeHandler
    /\ Len(stateSequence) = MaxSteps
    /\ tick = "ran" /\ Quiescent
    /\ calls = DeclaredRun /\ emitted # << >>

\* C2: with an exit handler registered, the exit handler is invoked at most
\* once, and no success or error is emitted before it has been invoked.
C2_ExitHandlerOnceBeforeEmit ==
    (Sequencer /\ exitHandler) => (exitCalls <= 1 /\ exitBeforeEmit)

\* C3: an Action or a machine emits at most one success or error event.
C3_AtMostOneOutcome ==
    /\ \A a \in Actions : outcomes[a] <= 1
    /\ Len(emitted) <= 1

\* C4: no listener receives a success or error event of an Action on which
\* cancel() has been called before.
C4_NoEmissionAfterCancel == ~late

\* Where the event << kind, a, _ >> stands in the trace of the last
\* operation (0 when it does not).
Position(kind, a) ==
    IF \E i \in 1..Len(trace) : trace[i][1] = kind /\ trace[i][2] = a
    THEN CHOOSE i \in 1..Len(trace) : trace[i][1] = kind /\ trace[i][2] = a
    ELSE 0

Children(a) == { subActions[a][i] : i \in 1..Len(subActions[a]) }

\* The last operation was a.cancel(); a's own cancel event is its last.
CancelOp == trace # << >> /\ trace[1][1] = "cancel"
CancelRoot == trace[Len(trace)][2]
CancelTree == Descendants(subActions, CancelRoot) \cup { CancelRoot }

\* C5: a.cancel() emits cancel on every Action of a's sub-action tree, at
\* every depth, and on no other; on each of them before it does on its
\* parent, and on a itself last.
C5_CancelCascades ==
    (program = "actions" /\ CancelOp) =>
        /\ \A i \in 1..Len(trace) : trace[i][1] = "cancel" /\ trace[i][2] \in CancelTree
        /\ \A x \in CancelTree :
              /\ Position("cancel", x) > 0
              /\ cancelled[x]
              /\ \A c \in Children(x) :
                    /\ Position("cancel", c) > 0
                    /\ Position("cancel", c) < Position("cancel", x)

C5_Witness ==
    /\ program = "actions" /\ CancelOp
    /\ CancelRoot = 1
    /\ Children(1) = { 2 } /\ Children(2) = { 3 }
    /\ Len(trace) = 3

HasListener(ls, kind) == \E i \in 1..Len(ls) : ls[i].kind = kind

BubbleTarget(c) ==
    (CHOOSE i \in 1..Len(errorListeners[c]) : errorListeners[c][i].kind = "bubble")

\* C6: when a sub-action registered with error bubbling emits error, every
\* other sub-action of its parent emits cancel, after that the parent emits
\* error with the same payload, and the failing sub-action emits no cancel.
C6_BubblingCancelsSiblingsFirst ==
    program = "actions" =>
        \A i \in 1..Len(trace) :
            (trace[i][1] = "error" /\ HasListener(errorListeners[trace[i][2]], "bubble")) =>
                LET c == trace[i][2]
                    parent == errorListeners[c][BubbleTarget(c)].to
                IN  \E j \in (i+1)..Len(trace) :
                        /\ trace[j] = << "error", parent, trace[i][3] >>
                        /\ \A s \in Children(parent) \ { c } :
                              /\ cancelled[s]
                              /\ \E k \in (i+1)..(j-1) : trace[k] = << "cancel", s, "" >>
                        /\ \A k \in i..j : trace[k] # << "cancel", c, "" >>

C6_Witness ==
    /\ program = "actions"
    /\ Children(1) = { 2, 3 }
    /\ HasListener(errorListeners[2], "bubble")
    /\ trace # << >> /\ trace[1] = << "error", 2, 2 >>
    /\ Position("cancel", 3) > 0
    /\ Position("error", 1) > Position("cancel", 3)

\* C7: a child registered by StateMachine.transition without an error
\* target has the error-bubbling listener.
C7_TransitionBubblesByDefault ==
    \A c \in Actions :
        (regs[c].via = "transition" /\ regs[c].error = "") =>
            HasListener(errorListeners[c], "bubble")

C9_StartIsDeferred ==
    /\ Sequencer =>
          /\ inStartTick => (calls = << >> /\ emitted = << >> /\ stack = << >>)
          /\ lateListener => delivered = emitted
    /\ program = "actions" =>
          (mainBlock => \A a \in Actions : started[a] # "running" /\ outcomes[a] = 0)

C9_Witness ==
    /\ Sequencer /\ lateListener
    /\ delivered # << >> /\ delivered = emitted

\* Transition i of the queue has reported a completion that counts: success,
\* or error when it declared an error target.
CountedCompletion(i) ==
    /\ qTransitions[i].out # << >>
    /\ qTransitions[i].out[1] = "success" \/ qTransitions[i].error # ""

\* C10: a parallel queue started once has forced finalState exactly once
\* when all its K transitions have reported a counted completion (at once
\* when K = 0), and not at all before, whatever the order of the reports.
C10_FinalStateOnceAfterAll ==
    (QueueProgram /\ Len(completedItems) = 1) =>
        finalCount = IF \A i \in 1..Len(qTransitions) : CountedCompletion(i)
                     THEN 1 ELSE 0

C10_Witness ==
    /\ QueueProgram /\ Len(completedItems) = 1
    /\ Len(qTransitions) = MaxSpecs
    /\ \A i \in 1..Len(qTransitions) : CountedCompletion(i)
    /\ finalCount = 1 /\ qState = "final"

\* C11: in a parallel queue started once, the completion counter is the
\* number of transitions that have reported success, or error with an error
\* target of their own; an error of a transition without one is not counted
\* and the queue does not force finalState with it.
C11_CountsSuccessAndHandledError ==
    (QueueProgram /\ Len(completedItems) = 1) =>
        /\ completedItems[1] =
               Cardinality({ i \in 1..Len(qTransitions) : CountedCompletion(i) })
        /\ (\E i \in 1..Len(qTransitions) :
                 qTransitions[i].out = << "error" >> /\ qTransitions[i].error = "")
               => finalCount = 0

C11_Witness ==
    /\ QueueProgram /\ Len(completedItems) = 1
    /\ \E i, j \in 1..Len(qTransitions) :
          /\ qTransitions[i].out = << "error" >> /\ qTransitions[i].error = ""
          /\ qTransitions[j].out = << "error" >> /\ qTransitions[j].error # ""
    /\ completedItems[1] = 1

\* The transitions of the serial queue whose action is running.
InFlight == { i \in 1..Len(qTransitions) : qTransitions[i].pending > 0 }

\* start() has been called on the queue, once.
StartedOnce == Len(completedItems) = 1

\* C12: in a serial queue started once, start() has started the action of
\* the first transition and no other; the action of transition i+1 has been
\* started only if transition i has reported a counted completion; no action
\* is started twice, and at most one is in flight.
C12_SerialOneAtATime ==
    (SerialProgram /\ StartedOnce) =>
        /\ Cardinality(InFlight) <= 1
        /\ Len(qTransitions) > 0 => qTransitions[1].wired = 1
        /\ \A i \in 1..Len(qTransitions) :
              /\ qTransitions[i].wired <= 1
              /\ qTransitions[i].pending + Len(qTransitions[i].out)
                    = qTransitions[i].wired
              /\ (i > 1 /\ qTransitions[i].wired > 0) => CountedCompletion(i - 1)

C12_Witness ==
    /\ SerialProgram /\ StartedOnce
    /\ Len(qTransitions) = MaxSpecs
    /\ InFlight = { MaxSpecs }
    /\ \A i \in 1..(MaxSpecs - 1) : CountedCompletion(i)

\* C13: whenever a serial queue started once has forced finalState, the
\* handler of the last transition's target state had run before, for that
\* transition's outcome.
C13_FinalAfterLastHandler ==
    (SerialProgram /\ StartedOnce) =>
        \A k \in 1..Len(finalLog) : finalLog[k] > 0

C13_Witness ==
    /\ SerialProgram /\ StartedOnce
    /\ Len(qTransitions) = MaxSpecs
    /\ finalLog # << >> /\ finalCount = 1 /\ qState = "final"

\* Every action of a serial queue of K >= 1 transitions, started once, has
\* reported success.
AllSucceeded ==
    /\ SerialProgram /\ StartedOnce
    /\ Len(qTransitions) >= 1
    /\ \A i \in 1..Len(qTransitions) :
          qTransitions[i].out = << "success" >> /\ qTransitions[i].pending = 0

\* C14: when every action of a serial queue of K >= 1 transitions, started
\* once, has reported success, the queue eventually forces finalState (or
\* the program has called start() again), whatever the targets are and
\* whatever the handlers do to the machine's state.
C14_SerialReachesFinal ==
    AllSucceeded ~> (finalCount = 1 \/ ~StartedOnce)

\* C15: a serial queue forces finalState at most once and starts the action
\* of no transition twice, however often start() is called.
C15_StartOnce ==
    SerialProgram =>
        /\ finalCount <= 1
        /\ \A i \in 1..Len(qTransitions) :
              qTransitions[i].pending + Len(qTransitions[i].out) <= 1

\* The names of the declared steps.
Declared == { stateSequence[i] : i \in 1..Len(stateSequence) }

\* C16: in every reachable state of the sequencer the cursor is inside the
\* declared sequence (or before it), toNext() called there enters the step
\* at stateIndex+1, or `complete` when the cursor is at the last step, and
\* a started machine is in a declared step, `complete` or `error`.
C16_ToNextInRange ==
    Sequencer =>
        /\ stateIndex \in -1..(Len(stateSequence) - 1)
        /\ toNext(Cur, "none").state =
               IF stateIndex + 1 < Len(stateSequence)
               THEN stateSequence[stateIndex + 2] ELSE "complete"
        /\ toNext(Cur, "none").state \in Declared \cup { "complete" }
        /\ tick = "ran" => state \in Declared \cup { "complete", "error" }

C16_Witness ==
    /\ Sequencer /\ ~plainRun
    /\ Len(stateSequence) = MaxSteps
    /\ stateIndex = Len(stateSequence) - 1
    /\ state = "complete"
    /\ calls = stateSequence \o << "complete" >>

\* toPrev() of the machine the program runs, called in state S.
toPrevHere(S) == IF PseudoProgram THEN pToPrev(S, "none") ELSE toPrev(S, "none")

\* A function of the user is running with the cursor at the first step, or
\* before it.
AtFirstStep ==
    /\ Sequencer \/ PseudoProgram
    /\ Executing /\ Head(stack).k = "user"
    /\ stateIndex <= (IF PseudoProgram THEN 1 ELSE 0)

\* C17: toPrev() called with the cursor at the first step (or before it)
\* throws nothing, puts the machine in `error`, enters no handler but that
\* of `error` (in the sequencer with the diagnostic as its argument) and
\* leaves the cursor where it is; the cursor is never below its start value.
C17_ToPrevAtFirstStep ==
    /\ AtFirstStep =>
          LET T == toPrevHere(Cur)
          IN  /\ T.exc = "none"
              /\ T.state = "error"
              /\ T.stateIndex = stateIndex
              /\ Sequencer =>
                    /\ T.calls = calls
                    /\ Head(T.stack) = Frame("handler", "error", Diagnostic)
              /\ PseudoProgram => T.calls = Append(calls, "error")
    /\ stateIndex >= -1
\* The value of the first addState() call for a name.
FirstRegistration(name) ==
    registrations[CHOOSE i \in 1..Len(registrations) :
                      /\ registrations[i][1] = name
                      /\ \A j \in 1..(i-1) : registrations[j][1] # name][2]

\* C18: registering a handler under a name that already has one is rejected:
\* after any addState / nextState / next calls the handler of a name is the one
\* of the first registration of that name, and the declared sequence has no
\* second entry for it.
C18_FirstRegistrationWins ==
    Sequencer =>
        /\ \A name \in DOMAIN handlers : handlers[name] = FirstRegistration(name)
        /\ \A i, j \in 1..Len(stateSequence) :
               stateSequence[i] = stateSequence[j] => i = j

\* C19: `complete` and `error` cannot be declared as ordinary steps or named
\* states: an attempt leaves the reserved terminal handlers and the declared
\* sequence as they were, so that entering `complete` / `error` runs the
\* built-in terminal behaviour.
C19_ReservedNames ==
    Sequencer =>
        /\ handlers["complete"] = "complete"
        /\ handlers["error"] = "error"
        /\ \A i \in 1..Len(stateSequence) :
               stateSequence[i] \notin { "complete", "error" }

\* The handlers the example runs, in order, when bakecookie's step succeeds,
\* and when its action fails.
JumpRun == << "state0", "state1", "bakecookie", "state2", "complete" >>
JumpFailedRun == << "state0", "state1", "bakecookie", "error" >>

\* C20: in the sequence [A, B, C] where B jumps to a named state outside the
\* sequence that goes on with toNext, at once or after an action: C's handler
\* is invoked once, after bakecookie's; no auto-advance follows B's handler
\* (no handler is invoked but those of the run, each once); and the success
\* the machine emits carries the result of C, not that of B or of bakecookie.
C20_JumpThenNext ==
    JumpProgram =>
        /\ IsPrefix(calls, JumpRun) \/ IsPrefix(calls, JumpFailedRun)
        /\ \A k \in 1..Len(emitted) :
               emitted[k][1] = "success" =>
                   /\ emitted[k][2] = "fromC"
                   /\ calls = JumpRun
        /\ Len(SelectSeq(emitted, LAMBDA e : e[1] = "success")) <= 1

\* The example ran to its end through an action started by bakecookie.
C20_Witness ==
    /\ JumpProgram
    /\ Len(acts) = 1 /\ acts[1].st = "done"
    /\ calls = JumpRun
    /\ emitted = << << "success", "fromC" >> >>
    /\ delivered = emitted
    /\ Quiescent

\* The same, with bakecookie calling toNext(cookie) at once.
C20_WitnessSync ==
    /\ JumpProgram
    /\ acts = << >>
    /\ calls = JumpRun
    /\ emitted = << << "success", "fromC" >> >>
    /\ Quiescent

\* A step's function has thrown and go()'s catch block is about to run.
ThrownInStep ==
    /\ Sequencer
    /\ exc = "thrown" /\ HasGo(stack)
    /\ state \in Declared

ErrorEvents(events) == SelectSeq(events, LAMBDA e : e[1] = "error")

\* C21: an exception thrown in a step's handler is caught and taken to the
\* `error` state with the exception as its argument.  A custom error handler
\* receives it (and nothing is emitted by the machine itself); without one
\* the exit handler runs once and the machine emits one error carrying the
\* exception.  A machine that started an action as a transition enters its own
\* `error` state with the payload of the action's error.  In a run whose
\* functions make one call at most, listeners attached before start() receive
\* one error at most.
C21_ExceptionToError ==
    /\ ThrownInStep =>
          LET T == goCatch(Cur)
              U == handlerEntry(T)
          IN  /\ T.state = "error" /\ T.exc = "none"
              /\ T.emitted = emitted /\ T.exitCalls = exitCalls
              /\ Head(T.stack) = Frame("handler", "error", exc)
              /\ U.calls = Append(calls, "error")
              /\ errorHandler =>
                    /\ Head(U.stack) = Frame("user", "errorHandler", exc)
                    /\ U.emitted = emitted
              /\ ~errorHandler =>
                    /\ U.emitted = Append(emitted, << "error", exc >>)
                    /\ U.exitCalls = exitCalls + (IF exitHandler THEN 1 ELSE 0)
                    /\ listening =>
                          /\ U.delivered = Append(delivered, << "error", exc >>)
                          /\ U.exc = "none"
                          /\ ~U.running
    /\ (Sequencer /\ Quiescent) =>
          \A i \in 1..Len(acts) :
              acts[i].st = "started" =>
                  LET P == actionListener(Cur, i, "error")
                  IN  /\ P.state = "error"
                      /\ Head(P.stack) = Frame("handler", "error", "failure")
                      /\ P.emitted = emitted
    /\ (Sequencer /\ listening /\ ~lateListener /\ ~errorHandler /\ cmds <= 1) =>
          Len(ErrorEvents(delivered)) <= 1

\* The second of two steps threw, with an exit handler and no error handler:
\* the exit handler has run once and the listeners have the exception.
C21_Witness ==
    /\ Sequencer
    /\ exitHandler /\ ~errorHandler
    /\ calls = << "state0", "state1", "error" >>
    /\ exitCalls = 1
    /\ emitted = << << "error", "thrown" >> >>
    /\ delivered = emitted
    /\ Quiescent

\* The transition a navigation call with a startable value sets up.
Wired(target) == [success |-> target, error |-> "error", st |-> "started"]

\* T is S with one more action started, wired to `target`, and nothing else
\* done: same state, same cursor, no handler entered or pending.
StartsAndStays(S, T, target) ==
    /\ T.acts = Append(S.acts, Wired(target))
    /\ T.transitioning
    /\ T.state = S.state /\ T.stateIndex = S.stateIndex
    /\ T.stack = S.stack /\ T.calls = S.calls
    /\ T.emitted = S.emitted /\ T.exc = S.exc

\* The state toNext() goes to from S.
NextTarget(S) ==
    IF S.stateIndex + 1 < Len(stateSequence)
    THEN stateSequence[S.stateIndex + 2] ELSE "complete"

HandlerFrames(stk, name) ==
    Len(SelectSeq(stk, LAMBDA f : f.k = "handler" /\ f.name = name))

AllSteps(kind) == \A i \in 1..Len(stateSequence) : handlers[stateSequence[i]] = kind

DoneActs == Len(SelectSeq(acts, LAMBDA a : a.st = "done"))
StartedActs == Len(SelectSeq(acts, LAMBDA a : a.st = "started"))

\* C22: toState / toNext / toComplete given a startable value start it and
\* leave the machine where it is; a declared step that is a startable value
\* does the same when it is entered.  When the action reports success the
\* handler of the target is entered once, with the action's payload; when it
\* reports an error the machine enters `error` with that payload and the
\* target's handler is not entered.  A machine whose steps are all startable
\* values enters a handler only after the action of the step before has
\* reported, one action at a time.
C22_StartableValue ==
    Sequencer =>
        /\ (Executing /\ Head(stack).k = "user") =>
              /\ StartsAndStays(Cur, toNext(Cur, "action"), NextTarget(Cur))
              /\ StartsAndStays(Cur, toComplete(Cur, "action"), "complete")
              /\ \A name \in Declared :
                     StartsAndStays(Cur, toState(Cur, name, "action"), name)
        /\ (Executing /\ Head(stack).k = "handler"
               /\ handlers[Head(stack).name] = "act") =>
              LET S == [Pop(Cur) EXCEPT !.calls = Append(@, Head(stack).name)]
              IN  StartsAndStays(S, handlerEntry(Cur), NextTarget(Cur))
        /\ Quiescent =>
              \A i \in 1..Len(acts) :
                  acts[i].st = "started" =>
                      LET target == acts[i].success
                          T == actionListener(Cur, i, "success")
                          E == actionListener(Cur, i, "error")
                      IN  /\ T.state = target
                          /\ T.stack = << Frame("handler", target, "result"),
                                          Frame("go", "", "none") >>
                          /\ T.calls = calls
                          /\ T.acts[i].st = "done"
                          /\ E.state = "error"
                          /\ E.stack = << Frame("handler", "error", "failure"),
                                          Frame("go", "", "none") >>
                          /\ E.calls = calls
                          /\ E.acts[i].st = "done"
        /\ (AllSteps("act") /\ ~completeHandler /\ ~errorHandler) =>
              /\ StartedActs <= 1
              /\ Len(calls) <= 1 + DoneActs
              /\ \/ IsPrefix(calls, DeclaredRun)
                 \/ \E n \in 0..Len(stateSequence) :
                        calls = SubSeq(stateSequence, 1, n) \o << "error" >>

\* Two steps that are startable values have run, each after the action of the
\* step before it, and the machine has emitted the last payload.
C22_Witness ==
    /\ Sequencer
    /\ Len(stateSequence) = 2 /\ AllSteps("act")
    /\ ~completeHandler /\ ~errorHandler
    /\ calls = << "state0", "state1", "complete" >>
    /\ DoneActs = 2
    /\ emitted = << << "success", "result" >> >>
    /\ Quiescent

\* The actions a cancel event is emitted on by the operation whose events
\* are `events`.
CancelEventsOf(events) ==
    { events[k][2] : k \in { j \in 1..Len(events) : events[j][1] = "cancel" } }

\* C23: cancel() is idempotent: a further cancel() on an Action, or on one
\* that tracks it, emits no cancel event on an Action that has emitted one.
C23_CancelIdempotent ==
    ActionsProgram =>
        \A a \in Actions :
            \A c \in CancelEventsOf(cancel(SameCallback(CurA), a).trace) :
                ~cancelled[c]

\* The function of a declared step has returned to its wrapper.
AtWrapperOfStep ==
    /\ Sequencer /\ Executing
    /\ Head(stack).k = "wrap"
    /\ Head(stack).name \in Declared
    /\ handlers[Head(stack).name] \in { "func", "wait" }

\* C24: when the function of a step returns, the wrapper goes to the next
\* declared state, with no arguments, if and only if the state is the one at
\* the handler's entry, the handler is not marked always-wait and no
\* transition is pending; otherwise the wrapper does nothing.
C24_AutoAdvanceIff ==
    AtWrapperOfStep =>
        LET f == Head(stack)
            S == Pop(Cur)
            three == S.state = f.name /\ ~Marked(f.name) /\ ~S.transitioning
        IN  /\ three => handlerExit(Cur) = toNext(S, "none")
            /\ ~three => handlerExit(Cur) = S

\* A function of the user is running with the cursor on a declared step.
InStep ==
    /\ Sequencer
    /\ Executing /\ Head(stack).k = "user"
    /\ stateIndex >= 0 /\ stateIndex < Len(stateSequence)

\* C25: toRepeat(args) enters the step at the current sequence index again:
\* nothing is thrown, the handler of stateSequence[stateIndex] is the next to
\* run, with the arguments given, stateIndex is unchanged and the machine is
\* not in `error`.
C25_ToRepeat ==
    InStep =>
        LET T == toRepeat(Cur, "again")
        IN  /\ T.exc = "none"
            /\ T.state = findState(stateIndex)
            /\ T.stateIndex = stateIndex
            /\ Head(T.stack) = Frame("handler", findState(stateIndex), "again")

\* C26: `transitioning` is true whenever an action started through
\* transition() / toState(target, action) has not reported yet, and so the
\* wrapper of a step does not auto-advance while such an action is in flight,
\* also when the handler started two actions and one of them has reported.
C26_TransitioningWhileInFlight ==
    Sequencer =>
        /\ StartedActs > 0 => transitioning
        /\ (AtWrapperOfStep /\ StartedActs > 0) => handlerExit(Cur) = Pop(Cur)

Terminal == { "complete", "error" }

\* C27: once the machine has entered `complete` or `error`, no handler of a
\* declared step is invoked and that terminal state is not entered again,
\* with or without a completion / error callback, whether or not the callback
\* emits, and whatever the actions started before report afterwards.
C27_TerminalIsFinal ==
    Sequencer =>
        \A i \in 1..Len(calls) :
            calls[i] \in Terminal =>
                \A j \in (i+1)..Len(calls) :
                    /\ calls[j] \notin Declared
                    /\ calls[j] # calls[i]

====
